---- MODULE Spec2Model ----
(***************************************************************************)
(* The project catalog store of project-manager-cli: DatabaseManager       *)
(* (src/src/core/database.py), its schema migrator and its record          *)
(* operations, as a state machine over one SQLite catalog file.            *)
(***************************************************************************)
EXTENDS Integers, Sequences, FiniteSets, TLC

VARIABLES
    db,         \* the catalog file as the connection sees it: tables, columns, versions, rows
    committed,  \* the project rows of the last commit (what a rollback restores)
    conn,       \* self.conn is set
    clock,      \* the wall clock read by datetime.now()
    faults,     \* statements the storage engine currently fails on (environment)
    inTx,       \* the caller is inside a `with db.transaction():` body
    txSnap,     \* history: the rows when the transaction body was entered
    ret,        \* the last call: its name, arguments, return value, exception
    mig,        \* history: what the last run of _migrate_schema did
    pending     \* an add_or_update_project of another store on this file, between its
                \* SELECT and its INSERT OR REPLACE: the payload and the row it read

vars == <<db, committed, conn, clock, faults, inTx, txSnap, ret, mig, pending>>

\* ------------------------------------------------------------------ bounds
MaxClock == 3
MaxOpen == 2

\* ------------------------------------------------------------------ values
\* SQL NULL, by the column's type: text, number (flags, counters, timestamps), tags text.
NULL == "NULL"
NullInt == 0 - 1
NullTags == <<"NULL">>
\* A dictionary key the caller did not supply; Python's None.
NoKey == "NoKey"
NoKeyInt == 0 - 2
None == "None"

\* A tags value in Python: a list of strings, a string, None, or no such key.
TagsList(l) == [kind |-> "list", val |-> l]
TagsStr(t) == [kind |-> "str", val |-> t]
TagsNone == [kind |-> "None", val |-> <<>>]
TagsNoKey == [kind |-> "nokey", val |-> <<>>]

UUIDs == {"u1", "u2"}
Paths == {"/p/a", "/p/b"}
ClockSteps == {0, 1}

\* ------------------------------------------------------------------ schema
SCHEMA_VERSION == 2

LegacyColumns ==
    {"uuid", "name", "root_path", "tags", "ai_app_name", "ai_app_description",
     "date_added", "last_updated", "enabled"}

required_columns_v1 ==
    <<"description", "notes", "favorite", "last_opened", "open_count", "color_theme">>

required_columns_v2 ==
    <<"archived", "archive_path", "archive_date", "archive_size_mb">>

IntColumns ==
    {"favorite", "open_count", "enabled", "archived", "archive_size_mb",
     "last_opened", "date_added", "last_updated", "archive_date"}

NullOf(c) ==
    IF c \in IntColumns THEN NullInt ELSE IF c = "tags" THEN NullTags ELSE NULL

\* The DEFAULT clause of the column's definition; NULL without one.
ColumnDefault(c) ==
    CASE c = "favorite" -> 0
      [] c = "open_count" -> 0
      [] c = "color_theme" -> "blue"
      [] c = "archived" -> 0
      [] c = "enabled" -> 1
      [] OTHER -> NullOf(c)

CreateColumns ==
    {"uuid", "name", "root_path", "tags", "ai_app_name", "ai_app_description",
     "description", "notes", "favorite", "last_opened", "open_count",
     "date_added", "last_updated", "enabled", "color_theme"}

db_fields ==
    <<"uuid", "name", "root_path", "tags", "ai_app_name", "ai_app_description",
      "description", "notes", "favorite", "last_opened", "open_count",
      "date_added", "last_updated", "enabled", "color_theme">>

SeqToSet(s) == {s[i] : i \in 1..Len(s)}

AllColumns == CreateColumns \cup SeqToSet(required_columns_v2)

\* ------------------------------------------------------------------ tags as JSON text
\* A string is a sequence of one-character strings; a tag list is a sequence of
\* strings.  json.dumps writes ["a", "b"]; json.loads parses it back or fails.
Quote == "\""

RECURSIVE JoinElems(_)
JoinElems(l) ==
    IF l = <<>> THEN <<>>
    ELSE IF Len(l) = 1 THEN <<Quote>> \o l[1] \o <<Quote>>
    ELSE <<Quote>> \o l[1] \o <<Quote, ",", " ">> \o JoinElems(Tail(l))

RECURSIVE JoinBare(_)
JoinBare(l) ==
    IF l = <<>> THEN <<>>
    ELSE IF Len(l) = 1 THEN l[1]
    ELSE l[1] \o <<",", " ">> \o JoinBare(Tail(l))

json_dumpsUnquoted(l) == <<"[">> \o JoinBare(l) \o <<"]">>

json_dumps(l) == <<"[">> \o JoinElems(l) \o <<"]">>

DecodeError == [ok |-> FALSE, val |-> <<>>, next |-> 0]

RECURSIVE SkipSpace(_, _)
SkipSpace(s, i) ==
    IF i <= Len(s) /\ s[i] = " " THEN SkipSpace(s, i + 1) ELSE i

RECURSIVE ClosingQuote(_, _)
ClosingQuote(s, i) ==
    IF i > Len(s) THEN 0
    ELSE IF s[i] = Quote THEN i
    ELSE ClosingQuote(s, i + 1)

\* s[i] is an opening quote: the string up to the closing one.
ParseString(s, i) ==
    LET j == ClosingQuote(s, i + 1) IN
    IF j = 0 THEN DecodeError
    ELSE [ok |-> TRUE, val |-> SubSeq(s, i + 1, j - 1), next |-> j + 1]

\* The elements of a list after "[" or ",": a string, then "," or "]".
RECURSIVE ParseElems(_, _, _)
ParseElems(s, i, acc) ==
    LET k == SkipSpace(s, i) IN
    IF k > Len(s) \/ s[k] # Quote THEN DecodeError
    ELSE LET e == ParseString(s, k) IN
         IF ~e.ok THEN DecodeError
         ELSE LET m == SkipSpace(s, e.next) IN
              IF m > Len(s) THEN DecodeError
              ELSE IF s[m] = "," THEN ParseElems(s, m + 1, Append(acc, e.val))
              ELSE IF s[m] = "]" THEN [ok |-> TRUE, val |-> Append(acc, e.val), next |-> m + 1]
              ELSE DecodeError

ParseValue(s, i) ==
    IF i > Len(s) THEN DecodeError
    ELSE IF s[i] = Quote THEN ParseString(s, i)
    ELSE IF s[i] = "[" THEN
        LET k == SkipSpace(s, i + 1) IN
        IF k <= Len(s) /\ s[k] = "]" THEN [ok |-> TRUE, val |-> <<>>, next |-> k + 1]
        ELSE ParseElems(s, i + 1, <<>>)
    ELSE DecodeError

\* json.loads: one value, then nothing but white space ("Extra data" otherwise).
json_loads(s) ==
    LET v == ParseValue(s, SkipSpace(s, 1)) IN
    IF v.ok /\ SkipSpace(s, v.next) = Len(s) + 1 THEN v ELSE DecodeError


\* ------------------------------------------------------------------ schema migration
NoTables == {}
OtherTables == {"tags", "tool_configs", "search_history"}

TableExists(d, t) == t \in d.tables

\* _get_current_schema_version: the highest recorded version, 0 without the table.
Max(S) == CHOOSE x \in S : \A y \in S : y <= x

_get_current_schema_version(d) ==
    IF ~TableExists(d, "schema_version") THEN 0
    ELSE IF d.versions = {} THEN 0 ELSE Max(d.versions)

AlterAddColumnNoDefault(d, c) ==
    [d EXCEPT !.columns = @ \cup {c},
              !.rows = [u \in DOMAIN @ |->
                           [k \in DOMAIN @[u] \cup {c} |->
                               IF k = c /\ k \notin DOMAIN @[u] THEN NullOf(c) ELSE @[u][k]]]]

\* ALTER TABLE projects ADD COLUMN c <def>: every row reads the column's default.
AlterAddColumn(d, c) ==
    [d EXCEPT !.columns = @ \cup {c},
              !.rows = [u \in DOMAIN @ |->
                           [k \in DOMAIN @[u] \cup {c} |->
                               IF k = c /\ k \notin DOMAIN @[u] THEN ColumnDefault(c) ELSE @[u][k]]]]

\* The engine refuses ALTER for a column that exists, or when it is failing on c.
AlterFails(d, c, f) == c \in d.columns \/ c \in f

\* One "for column_name ... in required_columns" loop: m carries db, attempted, failed.
RECURSIVE AddMissingColumns(_, _, _, _)
AddMissingColumnsUnguarded(m, cols, existing, f) ==
    IF cols = <<>> THEN m
    ELSE LET c == Head(cols) IN
         IF AlterFails(m.db, c, f)
         THEN AddMissingColumns(
                  [m EXCEPT !.attempted = Append(@, c), !.failed = @ \cup {c}],
                  Tail(cols), existing, f)
         ELSE AddMissingColumns(
                  [m EXCEPT !.db = AlterAddColumn(m.db, c), !.attempted = Append(@, c),
                            !.applied = @ + 1],
                  Tail(cols), existing, f)

AddMissingColumnsAbort(m, cols, existing, f) ==
    IF cols = <<>> THEN m
    ELSE LET c == Head(cols) IN
         IF c \in existing THEN AddMissingColumns(m, Tail(cols), existing, f)
         ELSE IF AlterFails(m.db, c, f)
              THEN [m EXCEPT !.attempted = Append(@, c), !.failed = @ \cup {c}]
              ELSE AddMissingColumns(
                       [m EXCEPT !.db = AlterAddColumn(m.db, c), !.attempted = Append(@, c),
                                 !.applied = @ + 1],
                       Tail(cols), existing, f)

AddMissingColumns(m, cols, existing, f) ==
    IF cols = <<>> THEN m
    ELSE LET c == Head(cols) IN
         IF c \in existing THEN AddMissingColumns(m, Tail(cols), existing, f)
         ELSE IF AlterFails(m.db, c, f)
              THEN AddMissingColumns(
                       [m EXCEPT !.attempted = Append(@, c), !.failed = @ \cup {c}],
                       Tail(cols), existing, f)
              ELSE AddMissingColumns(
                       [m EXCEPT !.db = AlterAddColumn(m.db, c), !.attempted = Append(@, c),
                                 !.applied = @ + 1],
                       Tail(cols), existing, f)

_set_schema_version(d, version) == [d EXCEPT !.versions = @ \cup {version}]

MigStart(d) ==
    [db |-> d, attempted |-> <<>>, failed |-> {}, applied |-> 0, exc |-> None, ran |-> FALSE]

\* The body of _migrate_schema's try block; exc is the sqlite3.Error that leaves it.
MigrateBody(d, f) ==
    LET m0 == MigStart(d)
        current_version == _get_current_schema_version(d)
    IN
    IF "sqlite_master" \in f THEN [m0 EXCEPT !.exc = "sqlite3.Error"]
    ELSE IF ~TableExists(d, "projects") THEN m0
    ELSE IF current_version >= SCHEMA_VERSION THEN m0
    ELSE IF "PRAGMA" \in f THEN [m0 EXCEPT !.exc = "sqlite3.Error"]
    ELSE
      LET m1 == IF current_version < 1
                THEN AddMissingColumns([m0 EXCEPT !.ran = TRUE], required_columns_v1, d.columns, f)
                ELSE [m0 EXCEPT !.ran = TRUE]
      IN
      IF current_version < 2 /\ "PRAGMA2" \in f THEN [m1 EXCEPT !.exc = "sqlite3.Error"]
      ELSE
        LET m2 == IF current_version < 2
                  THEN AddMissingColumns(m1, required_columns_v2, m1.db.columns, f)
                  ELSE m1
        IN
        IF ~TableExists(d, "schema_version") \/ "set_version" \in f
        THEN [m2 EXCEPT !.exc = "sqlite3.Error"]
        ELSE [m2 EXCEPT !.db = _set_schema_version(m2.db, SCHEMA_VERSION)]

_migrate_schemaEmptied(d, f) ==
    LET m == MigrateBody(d, f) IN [m EXCEPT !.exc = None, !.db.rows = <<>>]

\* _migrate_schema: the except clause prints the error and returns.
_migrate_schema(d, f) ==
    LET m == MigrateBody(d, f) IN [m EXCEPT !.exc = None]

\* ------------------------------------------------------------------ rows and payloads
Present(d) == DOMAIN d.rows

\* The tag lists and the raw tags strings callers pass.
T1 == <<"a">>
T2 == <<"b", "1">>
TagLists == {<<>>, <<T1>>, <<T2, T1>>}
RawTags == {<<"a", ",", "b">>}

\* The tag catalog: the names of the rows of the tags table.  Two of Config.DEFAULT_TAGS
\* ('api', 'cli') stand for the ten.
DEFAULT_TAGS == {<<"a", "p", "i">>, <<"c", "l", "i">>}

\* INSERT OR IGNORE INTO tags: name is UNIQUE under the default (binary) collation, so
\* the row is ignored only when the very same name is there.
InsertOrIgnoreTag(d, name) == [d EXCEPT !.tagnames = @ \cup {name}]

_initialize_default_tags(d) == [d EXCEPT !.tagnames = @ \cup DEFAULT_TAGS]

\* The catalog files a store may be opened on: none yet, the table the first CLI
\* release created (no version table), a version-1 and a version-2 catalog.
EmptyFile ==
    [tables |-> NoTables, columns |-> {}, versions |-> {}, rows |-> <<>>, tagnames |-> {}]

LegacyRow(u, p, cols) ==
    [c \in cols |->
        CASE c = "uuid" -> u
          [] c = "name" -> "n"
          [] c = "root_path" -> p
          [] c = "tags" -> json_dumps(<<T1>>)
          [] c = "date_added" -> 0
          [] c = "last_updated" -> 0
          [] c = "enabled" -> 1
          [] c = "favorite" -> 1
          [] c = "open_count" -> 1
          [] c = "color_theme" -> "red"
          [] c = "notes" -> "note"
          [] OTHER -> NullOf(c)]

RowSets(cols) ==
    {<<>>, [u \in {"u1"} |-> LegacyRow(u, "/p/a", cols)],
     [u \in UUIDs |-> LegacyRow(u, IF u = "u1" THEN "/p/a" ELSE "/p/b", cols)]}

CatalogFiles ==
    {EmptyFile}
    \cup {[tables |-> {"projects"}, columns |-> LegacyColumns, versions |-> {}, rows |-> r,
            tagnames |-> {}] :
            r \in RowSets(LegacyColumns)}
    \cup {[tables |-> {"projects", "schema_version"} \cup OtherTables, columns |-> CreateColumns,
           versions |-> {1}, rows |-> r, tagnames |-> DEFAULT_TAGS] : r \in RowSets(CreateColumns)}
    \cup {[tables |-> {"projects", "schema_version"} \cup OtherTables, columns |-> AllColumns,
           versions |-> {1, 2}, rows |-> r, tagnames |-> DEFAULT_TAGS] : r \in RowSets(AllColumns)}

\* A call that has no further argument to remember.
NoArg == "NoArg"

NoCall ==
    [op |-> "none", uuid |-> None, tags |-> TagsNoKey, arg |-> NoArg, val |-> None,
     exc |-> None, gone |-> {}]
NoMig == MigStart(EmptyFile)

\* ------------------------------------------------------------------ connection
\* _execute_query / transaction: "if not self.conn: self.connect()".  close() leaves
\* self.conn set, to a closed connection, on which every statement fails.
EnsureConn(d) == IF conn = "none" THEN _migrate_schema(d, faults).db ELSE d
ConnAfter == IF conn = "none" THEN "open" ELSE conn
Closed == conn = "closed"

\* connect(): a new connection, then the migration.  The new connection sees what was
\* committed: statements the replaced connection had not committed are lost with it.
\* ret keeps the state of self.conn that the call found.
Connect ==
    /\ ~inTx
    /\ LET m == _migrate_schema([db EXCEPT !.rows = committed], faults) IN
        /\ db' = m.db
        /\ committed' = m.db.rows
        /\ mig' = [m EXCEPT !.db = EmptyFile]
        /\ ret' = [NoCall EXCEPT !.op = "connect", !.arg = conn,
                                 !.exc = IF m.exc = None THEN None ELSE "DatabaseError"]
    /\ conn' = "open"
    /\ UNCHANGED <<clock, faults, inTx, txSnap, pending>>

\* close(): "if self.conn: self.conn.close()".
Close ==
    /\ ~inTx
    /\ conn' = IF conn = "none" THEN "none" ELSE "closed"
    /\ ret' = [NoCall EXCEPT !.op = "close"]
    /\ UNCHANGED <<db, committed, clock, faults, inTx, txSnap, mig, pending>>

\* create_tables(): CREATE TABLE IF NOT EXISTS for each table, then the default tags.
create_tables(d) ==
    _initialize_default_tags(
        [d EXCEPT !.tables = @ \cup {"schema_version", "projects"} \cup OtherTables,
                  !.columns = IF TableExists(d, "projects") THEN @ ELSE CreateColumns])

CreateTables ==
    /\ ~inTx
    /\ IF Closed
       THEN /\ ret' = [NoCall EXCEPT !.op = "create_tables", !.exc = "DatabaseError"]
            /\ UNCHANGED <<db, committed, conn>>
       ELSE /\ db' = create_tables(EnsureConn(db))
            /\ committed' = db'.rows
            /\ conn' = ConnAfter
            /\ ret' = [NoCall EXCEPT !.op = "create_tables"]
    /\ UNCHANGED <<clock, faults, inTx, txSnap, mig, pending>>

\* The engine starts or stops failing on some statements (lock, disk, driver quirk).
FaultChoices ==
    {{}} \cup {{c} : c \in SeqToSet(required_columns_v1) \cup SeqToSet(required_columns_v2)}
         \cup {{"PRAGMA"}, {"PRAGMA2"}, {"set_version"}, {"sqlite_master"}}

EngineFault ==
    /\ \E f \in FaultChoices : faults' = f
    /\ faults' # faults
    /\ UNCHANGED <<db, committed, conn, clock, inTx, txSnap, ret, mig, pending>>

\* ------------------------------------------------------------------ record operations
\* An operation's outcome: the catalog after it, the exception it raises, its value.
NoRow == [uuid |-> None]
Ok(d, v) == [db |-> d, exc |-> None, val |-> v, row |-> NoRow]
Err(d, e) == [db |-> d, exc |-> e, val |-> None, row |-> NoRow]
Found(d, r) == [db |-> d, exc |-> None, val |-> "row", row |-> r]

\* A statement on projects naming columns cols: the engine rejects an unknown table or column.
StatementOk(d, cols) == TableExists(d, "projects") /\ cols \subseteq d.columns

\* "if project.get('tags'):" then json.loads, [] on JSONDecodeError.  The hydrated tags
\* are a list, or what was stored when it was NULL or empty, or the decoded non-list.

HydrateTags(stored) ==
    IF stored = NullTags THEN TagsNone
    ELSE IF stored = <<>> THEN TagsStr(<<>>)
    ELSE LET v == json_loads(stored) IN
         IF ~v.ok THEN TagsList(<<>>)
         ELSE IF stored[SkipSpace(stored, 1)] = "[" THEN TagsList(v.val)
         ELSE TagsStr(v.val)

\* dict(row) with the tags parsed: the record a lookup or listing returns.
Hydrate(row) == [c \in DOMAIN row |-> IF c = "tags" THEN HydrateTags(row[c]) ELSE row[c]]

get_project_by_uuid(d, u) ==
    IF ~StatementOk(d, {"uuid"}) THEN Err(d, "DatabaseError")
    ELSE IF u \in Present(d) THEN Found(d, Hydrate(d.rows[u])) ELSE Ok(d, None)

RowsAtPath(d, p) == {u \in Present(d) : d.rows[u]["root_path"] = p}

get_project_by_path(d, p) ==
    IF ~StatementOk(d, {"root_path"}) THEN Err(d, "DatabaseError")
    ELSE IF RowsAtPath(d, p) = {} THEN Ok(d, None)
    ELSE Found(d, Hydrate(d.rows[CHOOSE u \in RowsAtPath(d, p) : TRUE]))

\* The payloads callers pass to add_or_update_project: a key is supplied or not.
PayloadKeys == {"uuid", "name", "root_path", "tags", "description", "favorite", "enabled"}

NoKeyOf(c) == IF c \in IntColumns THEN NoKeyInt ELSE IF c = "tags" THEN TagsNoKey ELSE NoKey

Supplied(payload, k) == k \in DOMAIN payload /\ payload[k] # NoKeyOf(k)

\* project_data.get(field): None, stored as NULL, for a key that is not supplied.
PayloadGet(payload, k) == IF Supplied(payload, k) THEN payload[k] ELSE NullOf(k)

Minimal(u, p) ==
    [k \in PayloadKeys |->
        CASE k = "uuid" -> u [] k = "name" -> "n" [] k = "root_path" -> p [] OTHER -> NoKeyOf(k)]

\* create_project_payload: tags, description and enabled = True besides the identity.
ScanPayload(u, p, tags) ==
    [Minimal(u, p) EXCEPT !["tags"] = tags, !["description"] = "d", !["enabled"] = 1]

\* A payload with a name of its own, enabled, with or without tags.
Named(u, p, name, tags) == [Minimal(u, p) EXCEPT !["name"] = name, !["tags"] = tags, !["enabled"] = 1]

\* Two projects to find: "B" with a tag, "a" with two tags and a description, or
\* without tags.
NamedPayloads ==
    {Named("u1", "/p/a", "B", TagsList(<<T1>>)),
     [Named("u2", "/p/b", "a", TagsList(<<T2, T1>>)) EXCEPT !["description"] = "d"],
     Named("u2", "/p/b", "a", TagsNoKey)}

\* Identity only: who is stored where.
IdentityPayloads ==
    UNION {{Minimal(u, p), ScanPayload(u, p, TagsList(<<T1>>))} : <<u, p>> \in UUIDs \X Paths}

\* Every way of passing tags, for one project.
TagPayloads ==
    {Minimal("u1", "/p/a")}
    \cup {ScanPayload("u1", "/p/a", TagsList(t)) : t \in TagLists}
    \cup {[Minimal("u1", "/p/a") EXCEPT !["tags"] = TagsStr(t)] : t \in RawTags}

\* With and without the favorite key, for one project.
FavoritePayloads ==
    {Minimal("u1", "/p/a"), [Minimal("u1", "/p/a") EXCEPT !["favorite"] = 1],
     [Minimal("u1", "/p/a") EXCEPT !["favorite"] = 0]}

\* "if 'tags' in project_data and isinstance(project_data['tags'], list): json.dumps".
SerializeTags(payload) ==
    IF payload["tags"].kind = "list" THEN json_dumps(payload["tags"].val)
    ELSE IF payload["tags"].kind = "str" THEN payload["tags"].val
    ELSE NullTags

\* existing.get(k, 0): the stored value, None when it is NULL, 0 without the column.
ExistingGet(existing, k) == IF k \in DOMAIN existing THEN existing[k] ELSE 0

UpsertValuesRestamped(payload, existing, t1, t2) ==
    [c \in SeqToSet(db_fields) |->
        CASE c = "tags" -> SerializeTags(payload)
          [] c = "date_added" -> t1
          [] c = "open_count" ->
                IF existing.val # None THEN ExistingGet(existing.row, "open_count") ELSE 0
          [] c = "favorite" ->
                IF Supplied(payload, "favorite") THEN payload["favorite"]
                ELSE IF existing.val # None THEN ExistingGet(existing.row, "favorite") ELSE 0
          [] c = "last_updated" -> t2
          [] OTHER -> PayloadGet(payload, c)]

UpsertValuesResetCount(payload, existing, t1, t2) ==
    [c \in SeqToSet(db_fields) |->
        CASE c = "tags" -> SerializeTags(payload)
          [] c = "date_added" -> IF existing.val # None THEN existing.row["date_added"] ELSE t1
          [] c = "open_count" -> 0
          [] c = "favorite" ->
                IF Supplied(payload, "favorite") THEN payload["favorite"]
                ELSE IF existing.val # None THEN ExistingGet(existing.row, "favorite") ELSE 0
          [] c = "last_updated" -> t2
          [] OTHER -> PayloadGet(payload, c)]

\* The values bound to INSERT OR REPLACE: t1, t2 are the two readings of the clock.
UpsertValues(payload, existing, t1, t2) ==
    [c \in SeqToSet(db_fields) |->
        CASE c = "tags" -> SerializeTags(payload)
          [] c = "date_added" -> IF existing.val # None THEN existing.row["date_added"] ELSE t1
          [] c = "open_count" ->
                IF existing.val # None THEN ExistingGet(existing.row, "open_count") ELSE 0
          [] c = "favorite" ->
                IF Supplied(payload, "favorite") THEN payload["favorite"]
                ELSE IF existing.val # None THEN ExistingGet(existing.row, "favorite") ELSE 0
          [] c = "last_updated" -> t2
          [] OTHER -> PayloadGet(payload, c)]

\* INSERT OR REPLACE: rows that collide on uuid (PRIMARY KEY) or root_path (UNIQUE) are
\* deleted, then the row is inserted; a column not named takes its DEFAULT.
InsertOrReplaceUuidOnly(d, values) ==
    LET keep == {u \in Present(d) : u # values["uuid"]}
        row == [c \in d.columns |->
                   IF c \in DOMAIN values THEN values[c] ELSE ColumnDefault(c)]
    IN [d EXCEPT !.rows = [u \in keep \cup {values["uuid"]} |->
                              IF u = values["uuid"] THEN row ELSE d.rows[u]]]

InsertOrReplace(d, values) ==
    LET keep == {u \in Present(d) :
                    u # values["uuid"] /\ d.rows[u]["root_path"] # values["root_path"]}
        row == [c \in d.columns |->
                   IF c \in DOMAIN values THEN values[c] ELSE ColumnDefault(c)]
    IN [d EXCEPT !.rows = [u \in keep \cup {values["uuid"]} |->
                              IF u = values["uuid"] THEN row ELSE d.rows[u]]]

\* add_or_update_project after "existing = self.get_project_by_uuid(...)": the merge
\* with the row that was read, and the INSERT OR REPLACE on the catalog as it is now.
WriteProject(d, payload, existing, t1, t2) ==
    IF ~StatementOk(d, SeqToSet(db_fields)) THEN Err(d, "DatabaseError")
    ELSE Ok(InsertOrReplace(d, UpsertValues(payload, existing, t1, t2)), payload["uuid"])

add_or_update_project(d, payload, t1, t2) ==
    LET found == get_project_by_uuid(d, payload["uuid"]) IN
    IF found.exc # None THEN found
    ELSE WriteProject(d, payload, found, t1, t2)

\* No add_or_update_project of another store is between its two statements.
NoPending == [active |-> FALSE, payload |-> Minimal("u1", "/p/a"), existing |-> Ok(EmptyFile, None)]

\* UPDATE projects SET <assigns> WHERE uuid = u: no row, no change.
UpdateRow(d, u, assigns) ==
    IF ~StatementOk(d, DOMAIN assigns \cup {"uuid"}) THEN Err(d, "DatabaseError")
    ELSE IF u \notin Present(d) THEN Ok(d, "True")
    ELSE Ok([d EXCEPT !.rows[u] = [c \in DOMAIN @ |->
                                      IF c \in DOMAIN assigns THEN assigns[c] ELSE @[c]]],
            "True")

toggle_favoriteSetOnly(d, u, t) ==
    LET project == get_project_by_uuid(d, u) IN
    IF project.exc # None THEN project
    ELSE IF project.val = None THEN Ok(d, "False")
    ELSE LET r == UpdateRow(d, u, [favorite |-> 1, last_updated |-> t])
         IN IF r.exc # None THEN r ELSE Ok(r.db, "True")

toggle_favorite(d, u, t) ==
    LET project == get_project_by_uuid(d, u) IN
    IF project.exc # None THEN project
    ELSE IF project.val = None THEN Ok(d, "False")
    ELSE LET new_favorite == IF ExistingGet(project.row, "favorite") = 1 THEN 0 ELSE 1
             r == UpdateRow(d, u, [favorite |-> new_favorite, last_updated |-> t])
         IN IF r.exc # None THEN r
            ELSE Ok(r.db, IF new_favorite = 1 THEN "True" ELSE "False")

update_notesInsert(d, u, notes, t) ==
    IF u \in Present(d) THEN UpdateRow(d, u, [notes |-> notes, last_updated |-> t])
    ELSE Ok([d EXCEPT !.rows = [v \in Present(d) \cup {u} |->
                                   IF v = u
                                   THEN [c \in d.columns |->
                                            CASE c = "uuid" -> u
                                              [] c = "notes" -> notes
                                              [] c = "last_updated" -> t
                                              [] OTHER -> ColumnDefault(c)]
                                   ELSE d.rows[v]]], "True")

update_notes(d, u, notes, t) == UpdateRow(d, u, [notes |-> notes, last_updated |-> t])

\* The keyword arguments callers pass to update_project_fields.
allowed_fields == {"ai_app_name", "description", "tags"}

TagFieldArgs == {[tags |-> TagsList(l)] : l \in TagLists} \cup {[tags |-> TagsStr(t)] : t \in RawTags}

FieldArgs ==
    {[description |-> "e"], [ai_app_name |-> "app", name |-> "x"], [name |-> "x", favorite |-> 1],
     [description |-> "e", tags |-> TagsList(<<T2, T1>>), notes |-> "x", enabled |-> 0]}

FieldValue(fields, k) ==
    IF k = "tags"
    THEN IF fields[k].kind = "list" THEN json_dumps(fields[k].val) ELSE fields[k].val
    ELSE fields[k]

update_project_fieldsAny(d, u, fields, t) ==
    LET project == get_project_by_uuid(d, u)
        updates == DOMAIN fields
    IN
    IF project.exc # None THEN project
    ELSE IF project.val = None THEN Err(d, "DatabaseError")
    ELSE IF updates = {} THEN Ok(d, "False")
    ELSE UpdateRow(d, u, [k \in updates \cup {"last_updated"} |->
                            IF k = "last_updated" THEN t ELSE FieldValue(fields, k)])

update_project_fields(d, u, fields, t) ==
    LET project == get_project_by_uuid(d, u)
        updates == DOMAIN fields \cap allowed_fields
    IN
    IF project.exc # None THEN project
    ELSE IF project.val = None THEN Err(d, "DatabaseError")
    ELSE IF updates = {} THEN Ok(d, "False")
    ELSE UpdateRow(d, u, [k \in updates \cup {"last_updated"} |->
                            IF k = "last_updated" THEN t ELSE FieldValue(fields, k)])

IncrementedToOne(n) == IF n = NullInt THEN NullInt ELSE 1

\* "open_count = open_count + 1": NULL stays NULL.
Incremented(n) == IF n = NullInt THEN NullInt ELSE n + 1

record_project_open(d, u, now) ==
    IF ~StatementOk(d, {"last_opened", "open_count", "last_updated"}) THEN Err(d, "DatabaseError")
    ELSE IF u \notin Present(d) THEN Ok(d, "True")
    ELSE UpdateRow(d, u, [last_opened |-> now,
                          open_count |-> Incremented(d.rows[u]["open_count"]),
                          last_updated |-> now])

delete_projectStampOnly(d, u, t) == UpdateRow(d, u, [last_updated |-> t])

delete_project(d, u, t) == UpdateRow(d, u, [enabled |-> 0, last_updated |-> t])

hard_delete_project(d, u) ==
    IF ~StatementOk(d, {"uuid"}) THEN Err(d, "DatabaseError")
    ELSE Ok([d EXCEPT !.rows = [v \in Present(d) \ {u} |-> @[v]]], "True")

ArchivePaths == {"/z/a.zip"}
ArchiveSizes == {5}

archive_project(d, u, archive_path, archive_size_mb, now) ==
    UpdateRow(d, u, [archived |-> 1, archive_path |-> archive_path, archive_date |-> now,
                     archive_size_mb |-> archive_size_mb, last_updated |-> now])

\* get_all_projects: the uuids of the rows the SELECT returns.
AllProjects(d, enabled_only) ==
    IF enabled_only
    THEN {u \in Present(d) : d.rows[u]["enabled"] = 1 /\ d.rows[u]["archived"] = 0}
    ELSE Present(d)

get_all_projects(d, enabled_only) ==
    IF ~StatementOk(d, IF enabled_only THEN {"enabled", "archived", "name"} ELSE {"name"})
    THEN Err(d, "DatabaseError")
    ELSE Ok(d, "list")

ArchivedProjects(d) == {u \in Present(d) : d.rows[u]["archived"] = 1}

get_archived_projects(d) ==
    IF ~StatementOk(d, {"archived", "archive_date"}) THEN Err(d, "DatabaseError")
    ELSE Ok(d, "list")

\* ------------------------------------------------------------------ search
\* The text values of the records and of the queries, as characters.
Chars(s) ==
    CASE s = "n" -> <<"n">>
      [] s = "a" -> <<"a">>
      [] s = "B" -> <<"B">>
      [] s = "b" -> <<"b">>
      [] s = "_" -> <<"_">>
      [] s = "/p/a" -> <<"/", "p", "/", "a">>
      [] s = "/p/b" -> <<"/", "p", "/", "b">>
      [] s = "d" -> <<"d">>
      [] s = "e" -> <<"e">>
      [] s = "x" -> <<"x">>
      [] s = "note" -> <<"n", "o", "t", "e">>
      [] s = "note2" -> <<"n", "o", "t", "e", "2">>
      [] s = "own" -> <<"o", "w", "n">>
      [] OTHER -> <<>>

\* LIKE and COLLATE NOCASE fold the ASCII letters.
Lower(ch) ==
    CASE ch = "A" -> "a" [] ch = "B" -> "b" [] ch = "C" -> "c" [] ch = "I" -> "i"
      [] ch = "L" -> "l" [] ch = "N" -> "n" [] ch = "W" -> "w" [] OTHER -> ch

\* The pattern %q% of LIKE: q somewhere in the text, letters folded, "_" any character.
LikeAt(q, t, i) == \A k \in 1..Len(q) : q[k] = "_" \/ Lower(q[k]) = Lower(t[i + k - 1])

Like(query, value) ==
    /\ value # NULL
    /\ LET q == Chars(query)
           t == Chars(value)
       IN \E i \in 1..(Len(t) - Len(q) + 1) : LikeAt(q, t, i)

\* Python's "tag in text" on a string: tag is a substring of it.
IsSubstring(tag, text) ==
    \E i \in 1..(Len(text) - Len(tag) + 1) : SubSeq(text, i, i + Len(tag) - 1) = tag

\* "any(tag in project.get('tags', []) for tag in tags)" on the hydrated tags.
AnyTagIn(tags, hydrated) ==
    IF hydrated.kind = "list"
    THEN \E i \in 1..Len(tags) : tags[i] \in SeqToSet(hydrated.val)
    ELSE \E i \in 1..Len(tags) : IsSubstring(tags[i], hydrated.val)

\* ORDER BY name COLLATE NOCASE: the rank of a letter, names compared letter by letter.
Rank(ch) ==
    CASE Lower(ch) = "a" -> 1 [] Lower(ch) = "b" -> 2 [] Lower(ch) = "n" -> 14
      [] Lower(ch) = "x" -> 24 [] OTHER -> 0

RECURSIVE NoCaseLE(_, _)
NoCaseLE(s, t) ==
    IF s = <<>> THEN TRUE
    ELSE IF t = <<>> THEN FALSE
    ELSE IF Rank(s[1]) # Rank(t[1]) THEN Rank(s[1]) < Rank(t[1])
    ELSE NoCaseLE(Tail(s), Tail(t))

OrderByName(d, S) ==
    CHOOSE q \in [1..Cardinality(S) -> S] :
        /\ \A i, j \in 1..Cardinality(S) : i # j => q[i] # q[j]
        /\ \A i, j \in 1..Cardinality(S) :
              i < j => NoCaseLE(Chars(d.rows[q[i]]["name"]), Chars(d.rows[q[j]]["name"]))

\* "PRAGMA table_info(projects)" on self.conn, sqlite3.Error caught: the columns the
\* method believes the table has.
TableInfo(d) ==
    IF Closed \/ "pragma" \in faults \/ ~TableExists(d, "projects") THEN {} ELSE d.columns

LikeColumnsAll(d, query) ==
    IF query = "" THEN {} ELSE {"name", "root_path", "description", "notes"}

\* The text columns of the LIKE condition, for a query that is not empty.
LikeColumns(d, query) ==
    IF query = "" THEN {}
    ELSE {"name", "root_path"} \cup ({"description", "notes"} \cap TableInfo(d))

\* The rows of "SELECT * FROM projects WHERE enabled = 1 AND ...".
Selected(d, query, favorites_only) ==
    {u \in Present(d) :
        /\ d.rows[u]["enabled"] = 1
        /\ query # "" => \E c \in LikeColumns(d, query) : Like(query, d.rows[u][c])
        /\ favorites_only => d.rows[u]["favorite"] = 1}

\* The uuids of the records search_projects returns, in its order.
SearchResult(d, query, tags, favorites_only) ==
    IF favorites_only /\ "favorite" \notin TableInfo(d) THEN <<>>
    ELSE OrderByName(d, {u \in Selected(d, query, favorites_only) :
                            tags # <<>> => AnyTagIn(tags, HydrateTags(d.rows[u]["tags"]))})

search_projects(d, query, tags, favorites_only) ==
    IF conn = "none" /\ (query # "" \/ favorites_only) THEN Err(d, "AttributeError")
    ELSE IF favorites_only /\ "favorite" \notin TableInfo(d) THEN Ok(d, "list")
    ELSE IF Closed \/ "execute" \in faults THEN Err(d, "DatabaseError")
    ELSE IF ~StatementOk(d, {"enabled", "name"} \cup LikeColumns(d, query)
                              \cup (IF favorites_only THEN {"favorite"} ELSE {}))
         THEN Err(d, "DatabaseError")
    ELSE IF tags # <<>> /\ \E u \in Selected(d, query, favorites_only) :
                              HydrateTags(d.rows[u]["tags"]).kind = "None"
         THEN Err(d, "TypeError")
    ELSE Ok(d, "list")

\* The queries and tag filters callers search with.
Queries == {"", "b", "_", "d"}
TagFilters == {<<>>, <<T1>>, <<T2, T1>>}

\* ------------------------------------------------------------------ tag catalog
\* add_tag: INSERT OR IGNORE INTO tags (name, color, icon).
add_tag(d, name) ==
    IF ~TableExists(d, "tags") THEN Err(d, "DatabaseError")
    ELSE Ok(InsertOrIgnoreTag(d, name), "id")

\* The names callers add: default names in other letter case, and new ones.
NewTagNames ==
    {<<"a", "p", "i">>, <<"A", "p", "i">>, <<"C", "L", "I">>, <<"w", "e", "b">>, <<"W", "e", "b">>}

\* ------------------------------------------------------------------ payload tags
\* str.isalnum on the characters the tags are written with.
IsAlnum(ch) ==
    ch \in {"a", "b", "c", "e", "i", "l", "n", "p", "w", "A", "B", "C", "I", "L", "N", "W", "2"}

\* normalize_tag: "''.join(ch for ch in tag.lower() if ch.isalnum())".
normalize_tag(tag) == SelectSeq([i \in 1..Len(tag) |-> Lower(tag[i])], IsAlnum)

NonEmpty(t) == t # <<>>

\* ai_generated_tags: the normalizations of the AI tags that are not empty, in order.
NormalizedAiTags(ts) == SelectSeq([i \in 1..Len(ts) |-> normalize_tag(ts[i])], NonEmpty)

\* "if t not in seen: seen.add(t); tags.append(t)".
RECURSIVE KeepFirst(_, _)
KeepFirst(ts, seen) ==
    IF ts = <<>> THEN <<>>
    ELSE IF Head(ts) \in seen THEN KeepFirst(Tail(ts), seen)
    ELSE <<Head(ts)>> \o KeepFirst(Tail(ts), seen \cup {Head(ts)})

\* "tags = tags[:3]".
TagCap == 3

\* The tags of the payload: the custom tag, then the AI tags deduplicated with a
\* seen set that starts empty, the empty ones removed, capped.
PayloadTags(custom_tag, ai_tags, skip_ai_tags) ==
    LET norm == normalize_tag(custom_tag)
        own == IF custom_tag # <<>> /\ norm # <<>> THEN <<norm>> ELSE <<>>
        ai_generated_tags == IF skip_ai_tags THEN <<>> ELSE NormalizedAiTags(ai_tags)
        tags == SelectSeq(own \o KeepFirst(ai_generated_tags, {}), NonEmpty)
    IN SubSeq(tags, 1, IF Len(tags) < TagCap THEN Len(tags) ELSE TagCap)

\* The tags the AI service and the callers give: letter case, punctuation, nothing
\* left after normalization, and no custom tag (the empty text).
GivenTags == {<<"A", "p", "i">>, <<"c", "-", "l", "i">>, <<"-">>, <<"w", "e", "b">>}
CustomTags == {<<>>, <<"a", "p", "i">>, <<"n", "b", "2">>, <<"-">>}
MaxAiTags == 3
AiTagLists == UNION {[1..n -> GivenTags] : n \in 0..MaxAiTags}

\* ------------------------------------------------------------------ calls
\* One call of a store method on the state: r is the method's outcome on the connected
\* catalog d0.  ret keeps the call, the tags passed to it and the uuids whose rows it removed.  commit is _execute_query's commit=True: the statement is committed at
\* once.  An exception inside a transaction body leaves it through transaction()'s
\* except clause, which rolls back to the last commit and re-raises.
Base(d0) == IF conn = "none" THEN d0.rows ELSE committed

\* self.conn.commit() with the engine failing on commits: it fails when there is
\* something to write.
CommitFails(rows, base) == "commit" \in faults /\ rows # base

Committed(d0, r0, commit) ==
    IF commit /\ r0.exc = None /\ CommitFails(r0.db.rows, Base(d0))
    THEN [r0 EXCEPT !.exc = "DatabaseError", !.val = None]
    ELSE r0

CallWith(op, u, tags, arg, d0, r0, commit) ==
    LET r == Committed(d0, r0, commit) IN
    /\ conn' = ConnAfter
    /\ ret' = [op |-> op, uuid |-> u, tags |-> tags, arg |-> arg, val |-> r.val,
               gone |-> Present(d0) \ Present(r.db),
               exc |-> IF r.exc # None /\ inTx /\ Closed THEN "sqlite3.ProgrammingError"
                       ELSE r.exc]
    /\ db' = IF r.exc # None /\ inTx /\ ~Closed THEN [r.db EXCEPT !.rows = Base(d0)] ELSE r.db
    /\ committed' = IF r.exc = None /\ commit THEN r.db.rows ELSE Base(d0)
    /\ inTx' = (inTx /\ r.exc = None)
    /\ txSnap' = IF inTx' THEN txSnap ELSE <<>>
    /\ UNCHANGED <<faults, mig, pending>>

Call(op, u, tags, d0, r0, commit) == CallWith(op, u, tags, NoArg, d0, r0, commit)

\* A method's outcome: every statement fails on a closed connection, and when the
\* engine is failing on cursor.execute.
Outcome(r) ==
    IF Closed THEN Err(db, "DatabaseError")
    ELSE IF "execute" \in faults THEN Err(EnsureConn(db), "DatabaseError")
    ELSE r

\* datetime.now(): the clock reading, which has advanced by step since the last one.
Now(step) == clock + step

AddOrUpdateProject(PS, CS) ==
    \E payload \in PS, s1, s2 \in CS :
        LET d0 == EnsureConn(db)
            isNew == payload["uuid"] \notin Present(d0)
            t1 == IF isNew THEN Now(s1) ELSE clock
            t2 == t1 + s2
            r == Outcome(add_or_update_project(d0, payload, t1, t2))
        IN /\ t2 <= MaxClock
           /\ isNew \/ s1 = 0
           /\ CallWith("add_or_update_project", payload["uuid"], payload["tags"], payload, d0, r, TRUE)
           /\ clock' = IF r.exc = None THEN t2 ELSE clock

\* add_or_update_project of another DatabaseManager on the same file, in two steps:
\* it reads the existing row; the calls of this store run; it merges what it read
\* with its payload and writes.  Each statement is committed at once, so both stores
\* see the same rows.
UpsertRead(PS) ==
    \E payload \in PS :
        LET d0 == EnsureConn(db)
            found == Outcome(get_project_by_uuid(d0, payload["uuid"]))
        IN /\ ~pending.active
           /\ ~inTx
           /\ found.exc = None
           /\ pending' = [active |-> TRUE, payload |-> payload,
                          existing |-> [found EXCEPT !.db = EmptyFile]]
           /\ db' = d0
           /\ committed' = Base(d0)
           /\ conn' = ConnAfter
           /\ UNCHANGED <<clock, faults, inTx, txSnap, ret, mig>>

UpsertWrite(CS) ==
    \E s1, s2 \in CS :
        LET payload == pending.payload
            isNew == pending.existing.val = None
            t1 == IF isNew THEN Now(s1) ELSE clock
            t2 == t1 + s2
            r == Committed(db, Outcome(WriteProject(db, payload, pending.existing, t1, t2)), TRUE)
        IN /\ pending.active
           /\ ~inTx
           /\ t2 <= MaxClock
           /\ isNew \/ s1 = 0
           /\ pending' = NoPending
           /\ ret' = [op |-> "add_or_update_project", uuid |-> payload["uuid"],
                      tags |-> payload["tags"], arg |-> payload, val |-> r.val,
                      exc |-> r.exc, gone |-> Present(db) \ Present(r.db)]
           /\ db' = r.db
           /\ committed' = IF r.exc = None THEN r.db.rows ELSE committed
           /\ clock' = IF r.exc = None THEN t2 ELSE clock
           /\ UNCHANGED <<conn, faults, inTx, txSnap, mig>>

GetProjectByUuid(US) ==
    \E u \in US :
        LET d0 == EnsureConn(db) IN
        /\ Call("get_project_by_uuid", u, TagsNoKey, d0, Outcome(get_project_by_uuid(d0, u)), FALSE)
        /\ UNCHANGED clock

GetProjectByPath(PS) ==
    \E p \in PS :
        LET d0 == EnsureConn(db) IN
        /\ Call("get_project_by_path", p, TagsNoKey, d0, Outcome(get_project_by_path(d0, p)), FALSE)
        /\ UNCHANGED clock

GetAllProjects ==
    \E enabled_only \in BOOLEAN :
        LET d0 == EnsureConn(db) IN
        /\ Call(IF enabled_only THEN "get_all_projects" ELSE "get_all_projects_all", None,
                TagsNoKey, d0,
                Outcome(get_all_projects(d0, enabled_only)), FALSE)
        /\ UNCHANGED clock

GetArchivedProjects ==
    LET d0 == EnsureConn(db) IN
    /\ Call("get_archived_projects", None, TagsNoKey, d0, Outcome(get_archived_projects(d0)), FALSE)
    /\ UNCHANGED clock

\* search_projects uses self.conn itself before any statement: on a store that never
\* connected the call ends there.
SearchProjects(QS, TS) ==
    \E query \in QS, tags \in TS, favorites_only \in BOOLEAN :
        /\ IF conn = "none" /\ (query # "" \/ favorites_only)
           THEN /\ ret' = [NoCall EXCEPT !.op = "search_projects", !.uuid = query,
                                         !.tags = TagsList(tags), !.arg = favorites_only,
                                         !.exc = "AttributeError"]
                /\ UNCHANGED <<db, committed, conn, faults, inTx, txSnap, mig, pending>>
           ELSE LET d0 == EnsureConn(db) IN
                CallWith("search_projects", query, TagsList(tags), favorites_only, d0,
                         search_projects(d0, query, tags, favorites_only), FALSE)
        /\ UNCHANGED clock

AddTag(NS) ==
    \E name \in NS :
        LET d0 == EnsureConn(db) IN
        /\ CallWith("add_tag", None, TagsNoKey, name, d0, Outcome(add_tag(d0, name)), TRUE)
        /\ UNCHANGED clock

\* create_project_payload: the payload's tags from the custom tag and the AI tags.
CreateProjectPayload(CS, AS) ==
    \E custom_tag \in CS, ai_tags \in AS, skip_ai_tags \in BOOLEAN :
        /\ ret' = [op |-> "create_project_payload", uuid |-> custom_tag,
                   tags |-> PayloadTags(custom_tag, ai_tags, skip_ai_tags),
                   arg |-> [ai_tags |-> ai_tags, skip_ai_tags |-> skip_ai_tags],
                   val |-> "payload", exc |-> None, gone |-> {}]
        /\ UNCHANGED <<db, committed, conn, clock, faults, inTx, txSnap, mig, pending>>

\* A method that reads the clock once, at t.
StampedWith(op, u, tags, arg, d0, r, t) ==
    /\ t <= MaxClock
    /\ CallWith(op, u, tags, arg, d0, r, TRUE)
    /\ clock' = IF r.exc = None THEN t ELSE clock

Stamped(op, u, tags, d0, r, t) == StampedWith(op, u, tags, NoArg, d0, r, t)

ToggleFavorite(US, CS) ==
    \E u \in US, s \in CS :
        LET d0 == EnsureConn(db) IN
        Stamped("toggle_favorite", u, TagsNoKey, d0, Outcome(toggle_favorite(d0, u, Now(s))), Now(s))

UpdateNotes(US, CS) ==
    \E u \in US, s \in CS :
        LET d0 == EnsureConn(db) IN
        Stamped("update_notes", u, TagsNoKey, d0, Outcome(update_notes(d0, u, "note2", Now(s))), Now(s))

UpdateProjectFields(US, FS, CS) ==
    \E u \in US, fields \in FS, s \in CS :
        LET d0 == EnsureConn(db) IN
        StampedWith("update_project_fields", u,
                IF "tags" \in DOMAIN fields THEN fields["tags"] ELSE TagsNoKey, fields, d0,
                Outcome(update_project_fields(d0, u, fields, Now(s))), Now(s))

RecordProjectOpen(US, CS) ==
    \E u \in US, s \in CS :
        LET d0 == EnsureConn(db) IN
        /\ u \in Present(d0) /\ "open_count" \in d0.columns => d0.rows[u]["open_count"] < MaxOpen
        /\ Stamped("record_project_open", u, TagsNoKey, d0,
                   Outcome(record_project_open(d0, u, Now(s))), Now(s))

DeleteProject(US, CS) ==
    \E u \in US, s \in CS :
        LET d0 == EnsureConn(db) IN
        Stamped("delete_project", u, TagsNoKey, d0, Outcome(delete_project(d0, u, Now(s))), Now(s))

HardDeleteProject(US) ==
    \E u \in US :
        LET d0 == EnsureConn(db) IN
        /\ Call("hard_delete_project", u, TagsNoKey, d0, Outcome(hard_delete_project(d0, u)), TRUE)
        /\ UNCHANGED clock

ArchiveProject(US, CS) ==
    \E u \in US, p \in ArchivePaths, z \in ArchiveSizes, s \in CS :
        LET d0 == EnsureConn(db) IN
        Stamped("archive_project", u, TagsNoKey, d0,
                Outcome(archive_project(d0, u, p, z, Now(s))), Now(s))

\* create_zip_archive: the archive is written; or it fails after ZipFile opened
\* the file, which stays as it is; or it fails before any file was made.
ZipOutcomes == {"written", "failed with file", "failed without file"}

\* ArchiveProjectDialog._start_archive: create the archive file, then
\* "with self.db.transaction(): self.db.archive_project(...)"; when that raises,
\* unlink the archive file and fail.  ret.val is the end of the flow, ret.arg the
\* archive file of this run as the flow leaves it.
StartArchive(US, CS) ==
    \E u \in US, p \in ArchivePaths, z \in ArchiveSizes, s \in CS, zip \in ZipOutcomes :
        /\ ~inTx
        /\ Now(s) <= MaxClock
        /\ IF zip # "written"
           THEN /\ ret' = [op |-> "_start_archive", uuid |-> u, tags |-> TagsNoKey,
                           arg |-> [path |-> p, exists |-> zip = "failed with file"],
                           val |-> "failed", exc |-> None, gone |-> {}]
                /\ UNCHANGED <<db, committed, conn, clock, faults, inTx, txSnap, mig, pending>>
           ELSE LET d0 == EnsureConn(db)
                    r == Committed(d0, Outcome(archive_project(d0, u, p, z, Now(s))), TRUE)
                IN /\ ret' = [op |-> "_start_archive", uuid |-> u, tags |-> TagsNoKey,
                              arg |-> [path |-> p, exists |-> r.exc = None],
                              val |-> IF r.exc = None THEN "success" ELSE "failed",
                              exc |-> None, gone |-> {}]
                   /\ conn' = ConnAfter
                   /\ db' = IF r.exc # None /\ ~Closed THEN [r.db EXCEPT !.rows = Base(d0)]
                            ELSE r.db
                   /\ committed' = IF r.exc = None THEN r.db.rows ELSE Base(d0)
                   /\ clock' = IF r.exc = None THEN Now(s) ELSE clock
                   /\ UNCHANGED <<faults, inTx, txSnap, mig, pending>>

\* transaction(): connect if needed, run the body, commit; rollback and re-raise on
\* any exception of the body.
TxEnter ==
    /\ ~inTx
    /\ LET d0 == EnsureConn(db) IN
        /\ db' = d0
        /\ committed' = Base(d0)
        /\ txSnap' = d0.rows
    /\ conn' = ConnAfter
    /\ inTx' = TRUE
    /\ ret' = [NoCall EXCEPT !.op = "transaction"]
    /\ UNCHANGED <<clock, faults, mig, pending>>

\* The body ends: self.conn.commit().
TxExit ==
    /\ inTx
    /\ inTx' = FALSE
    /\ txSnap' = <<>>
    /\ IF Closed
       THEN /\ ret' = [NoCall EXCEPT !.op = "transaction_exit", !.exc = "sqlite3.ProgrammingError"]
            /\ UNCHANGED <<db, committed>>
       ELSE IF CommitFails(db.rows, committed)
       THEN /\ ret' = [NoCall EXCEPT !.op = "transaction_exit", !.exc = "sqlite3.OperationalError"]
            /\ db' = [db EXCEPT !.rows = committed]
            /\ UNCHANGED committed
       ELSE /\ ret' = [NoCall EXCEPT !.op = "transaction_exit"]
            /\ committed' = db.rows
            /\ UNCHANGED db
    /\ UNCHANGED <<conn, clock, faults, mig, pending>>

\* The body runs a statement of its own on the connection transaction() yielded: an
\* UPDATE of the notes, not committed.
TxStatement(US) ==
    \E u \in US :
        /\ inTx /\ ~Closed /\ "execute" \notin faults
        /\ StatementOk(db, {"notes", "uuid"})
        /\ db' = UpdateRow(db, u, [notes |-> "own"]).db
        /\ ret' = [NoCall EXCEPT !.op = "transaction_statement", !.uuid = u]
        /\ UNCHANGED <<committed, conn, clock, faults, inTx, txSnap, mig, pending>>

\* The engine starts or stops failing on the statements or the commits of the record
\* operations (busy, locked, disk full).
StatementFault(FS) ==
    /\ \E f \in FS : faults' = f
    /\ faults' # faults
    /\ UNCHANGED <<db, committed, conn, clock, inTx, txSnap, ret, mig, pending>>

\* The caller's own code in the body raises: self.conn.rollback(), then re-raise.
TxRaise ==
    /\ inTx
    /\ inTx' = FALSE
    /\ IF Closed
       THEN /\ ret' = [NoCall EXCEPT !.op = "transaction_raise", !.exc = "sqlite3.ProgrammingError"]
            /\ UNCHANGED db
       ELSE /\ ret' = [NoCall EXCEPT !.op = "transaction_raise", !.exc = "Exception"]
            /\ db' = [db EXCEPT !.rows = committed]
    /\ UNCHANGED <<committed, conn, clock, faults, mig, txSnap, pending>>

\* ------------------------------------------------------------------ specifications
InitCommon ==
    /\ conn = "none"
    /\ clock = 0
    /\ faults = {}
    /\ inTx = FALSE
    /\ txSnap = <<>>
    /\ ret = NoCall
    /\ mig = NoMig
    /\ pending = NoPending

\* Migration of existing catalog files under engine faults.
InitMig ==
    /\ db \in CatalogFiles
    /\ committed = db.rows
    /\ InitCommon

NextMig == Connect \/ Close \/ CreateTables \/ EngineFault

SpecMig == InitMig /\ [][NextMig]_vars

\* The same catalog files with an engine that does not fail.
NextMigSound == Connect \/ Close \/ CreateTables

SpecMigSound == InitMig /\ [][NextMigSound]_vars

\* The store on a new catalog file: connect, create the tables, use the records of
\* two projects.  The clock stands still here; SpecTime moves it.
Init ==
    /\ db = EmptyFile
    /\ committed = db.rows
    /\ InitCommon

Still == {0}

Next ==
    \/ Connect
    \/ CreateTables
    \/ AddOrUpdateProject(IdentityPayloads, Still)
    \/ GetProjectByUuid(UUIDs)
    \/ GetProjectByPath(Paths)
    \/ GetAllProjects
    \/ GetArchivedProjects
    \/ DeleteProject(UUIDs, Still)
    \/ HardDeleteProject(UUIDs)
    \/ ArchiveProject(UUIDs, Still)

Spec == Init /\ [][Next]_vars

\* Transactions: one project, mutations inside and outside "with db.transaction():".
One == {"u1"}
OnePayload == {Minimal("u1", "/p/a"), ScanPayload("u1", "/p/a", TagsList(<<T1>>))}

NextTx ==
    \/ Connect
    \/ CreateTables
    \/ AddOrUpdateProject(OnePayload, Still)
    \/ UpdateNotes(One, Still)
    \/ UpdateProjectFields(UUIDs, {[description |-> "e"]}, Still)
    \/ ArchiveProject(One, Still)
    \/ TxEnter
    \/ TxExit
    \/ TxRaise

SpecTx == Init /\ [][NextTx]_vars

\* Tags: every way of writing the tags of one project, and the lookups.
NextTags ==
    \/ Connect
    \/ CreateTables
    \/ AddOrUpdateProject(TagPayloads, Still)
    \/ UpdateProjectFields(One, TagFieldArgs, Still)
    \/ GetProjectByUuid(One)
    \/ GetProjectByPath({"/p/a"})
    \/ GetAllProjects
    \/ GetArchivedProjects
    \/ DeleteProject(One, Still)
    \/ ArchiveProject(One, Still)
    \/ HardDeleteProject(One)

SpecTags == Init /\ [][NextTags]_vars

\* Time stamps and counters: every stamping method on one project, the clock moving,
\* on the catalog a store has after connect(), create_tables() and the next connect().
ReadyFile == _migrate_schema(create_tables(EmptyFile), {}).db

InitTime ==
    /\ db = ReadyFile
    /\ committed = db.rows
    /\ conn = "open"
    /\ clock = 0
    /\ faults = {}
    /\ inTx = FALSE
    /\ txSnap = <<>>
    /\ ret = NoCall
    /\ mig = NoMig
    /\ pending = NoPending

NextTime ==
    \/ AddOrUpdateProject(FavoritePayloads, ClockSteps)
    \/ ToggleFavorite(One, ClockSteps)
    \/ UpdateNotes(One, ClockSteps)
    \/ UpdateProjectFields(One, {[description |-> "e"]}, ClockSteps)
    \/ RecordProjectOpen(One, ClockSteps)
    \/ DeleteProject(One, ClockSteps)
    \/ ArchiveProject(One, ClockSteps)
    \/ HardDeleteProject(One)

SpecTime == InitTime /\ [][NextTime]_vars

\* Engine failures: the record operations of one project and the transaction scope on
\* a created catalog, with the engine failing on statements, commits or PRAGMA, and the
\* connection closed and reopened.
EngineFaults == {{}, {"execute"}, {"commit"}, {"pragma"}}

NextErr ==
    \/ Connect
    \/ Close
    \/ StatementFault(EngineFaults)
    \/ AddOrUpdateProject({Minimal("u1", "/p/a")}, Still)
    \/ GetProjectByUuid(One)
    \/ GetAllProjects
    \/ SearchProjects({"", "b"}, {<<>>})
    \/ UpdateNotes(One, Still)
    \/ HardDeleteProject(One)
    \/ TxEnter
    \/ TxExit
    \/ TxRaise
    \/ TxStatement(One)

SpecErr == InitTime /\ [][NextErr]_vars

\* Finding records: two named projects on a created catalog, listed, looked up,
\* searched, favorited, disabled, archived and removed.
NextFind ==
    \/ AddOrUpdateProject(NamedPayloads, Still)
    \/ GetProjectByUuid(UUIDs)
    \/ GetProjectByPath(Paths)
    \/ GetAllProjects
    \/ SearchProjects(Queries, TagFilters)
    \/ ToggleFavorite(One, Still)
    \/ DeleteProject(UUIDs, Still)
    \/ HardDeleteProject(UUIDs)
    \/ ArchiveProject(One, Still)

SpecFind == InitTime /\ [][NextFind]_vars

\* Unknown uuids and paths: one project is stored at most, every method is called for
\* it and for a uuid and a path the catalog never held.
NextMissing ==
    \/ AddOrUpdateProject({Minimal("u1", "/p/a")}, Still)
    \/ GetProjectByUuid(UUIDs)
    \/ GetProjectByPath(Paths)
    \/ ToggleFavorite(UUIDs, Still)
    \/ UpdateNotes(UUIDs, Still)
    \/ UpdateProjectFields(UUIDs, {[description |-> "e"]}, Still)
    \/ RecordProjectOpen(UUIDs, Still)
    \/ DeleteProject(UUIDs, Still)
    \/ HardDeleteProject(UUIDs)
    \/ ArchiveProject(UUIDs, Still)

SpecMissing == InitTime /\ [][NextMissing]_vars

\* Partial updates: one project on a created catalog, update_project_fields with
\* allowed and other fields, among the other methods that write the record.
NextFields ==
    \/ AddOrUpdateProject(OnePayload, Still)
    \/ UpdateProjectFields(UUIDs, FieldArgs, ClockSteps)
    \/ GetProjectByUuid(One)
    \/ ToggleFavorite(One, Still)
    \/ UpdateNotes(One, Still)
    \/ DeleteProject(One, Still)
    \/ ArchiveProject(One, Still)

SpecFields == InitTime /\ [][NextFields]_vars

\* Schema drift: existing catalog files whose migration could not add some of the
\* optional columns, then searched.
ColumnFaults == {{}, {"notes"}, {"description"}, {"favorite"}, {"notes", "description"}}

NextDrift ==
    \/ Connect
    \/ CreateTables
    \/ StatementFault(ColumnFaults)
    \/ SearchProjects({"", "b", "_"}, {<<>>})
    \/ GetProjectByUuid(One)
    \/ HardDeleteProject(One)

SpecDrift == InitMig /\ [][NextDrift]_vars

\* The tag catalog: default seeding by create_tables, and add_tag.
NextTagCatalog ==
    \/ Connect
    \/ Close
    \/ CreateTables
    \/ AddTag(NewTagNames)

SpecTagCatalog == Init /\ [][NextTagCatalog]_vars

\* The payload of a scanned project, for every custom tag and AI tag list.
NextPayload == CreateProjectPayload(CustomTags, AiTagLists)

SpecPayload == Init /\ [][NextPayload]_vars

\* The archive flow of the desktop dialog on the record of one project, with the
\* archive creation and the engine failing, and the record removed meanwhile.
NextArchive ==
    \/ Connect
    \/ Close
    \/ StatementFault(EngineFaults)
    \/ AddOrUpdateProject({Minimal("u1", "/p/a")}, Still)
    \/ StartArchive(One, ClockSteps)
    \/ GetProjectByUuid(One)
    \/ UpdateNotes(One, Still)
    \/ HardDeleteProject(One)

SpecArchive == InitTime /\ [][NextArchive]_vars

\* Two stores on one catalog file: the record of one project is opened and favorited
\* through this store while the other store upserts it.
NextShared ==
    \/ AddOrUpdateProject({Minimal("u1", "/p/a")}, Still)
    \/ UpsertRead(FavoritePayloads)
    \/ UpsertWrite(ClockSteps)
    \/ RecordProjectOpen(One, Still)
    \/ ToggleFavorite(One, Still)
    \/ GetProjectByUuid(One)
    \/ HardDeleteProject(One)

SpecShared == InitTime /\ [][NextShared]_vars

\* ------------------------------------------------------------------ properties
\* C1: at most one stored record has any given root_path, whatever was upserted:
\* get_project_by_path identifies at most one record.
C1_PathUnique == \A p \in Paths : Cardinality(RowsAtPath(db, p)) <= 1

\* An upsert took the root_path another uuid's record held, and that record is gone.
C1_Witness ==
    /\ ret.op = "add_or_update_project"
    /\ ret.exc = None
    /\ ret.gone # {}
    /\ ret.uuid \notin ret.gone

\* C3: connect() and then create_tables() on a catalog without a projects table give
\* the table every column of the current schema, the archive columns included, so
\* that listing, archiving and the archive listing work without another connect().
C3_FreshSchemaComplete ==
    [][(/\ conn = "open"
        /\ ~TableExists(db, "projects")
        /\ ret'.op = "create_tables"
        /\ ret'.exc = None)
       => /\ AllColumns \subseteq db'.columns
          /\ get_all_projects(db', TRUE).exc = None
          /\ get_archived_projects(db').exc = None
          /\ \A u \in UUIDs : archive_project(db', u, "/z/a.zip", 5, clock).exc = None]_vars

\* C7: favorite, enabled and archived of every stored record are 0 or 1, never NULL.
C7_FlagsNotNull ==
    \A u \in Present(db) :
        \A c \in {"favorite", "enabled", "archived"} \cap db.columns :
            db.rows[u][c] \in {0, 1}

\* C2: mutations made inside a transaction body are atomic: when the body raises, the
\* catalog is as it was on entry; when it ends normally, all of them are committed.
C2_TxAtomic ==
    [][(inTx /\ ~inTx')
       => IF ret'.exc # None
          THEN db'.rows = txSnap /\ committed' = txSnap
          ELSE committed' = db'.rows]_vars

C5_TagsRoundTrip ==
    (/\ ret.op \in {"add_or_update_project", "update_project_fields"}
     /\ ret.exc = None
     /\ ret.tags.kind = "list")
    => LET r == get_project_by_uuid(db, ret.uuid) IN
       /\ r.val = "row"
       /\ r.row["tags"] = TagsList(ret.tags.val)

\* A two-tag list was written through update_project_fields and reads back.
C5_Witness ==
    /\ ret.op = "update_project_fields"
    /\ ret.exc = None
    /\ ret.tags = TagsList(<<T2, T1>>)
    /\ get_project_by_uuid(db, "u1").row["tags"] = TagsList(<<T2, T1>>)

\* C6: every record a lookup returns carries tags as a list: the decoded list, and the
\* empty list when nothing decodable, or nothing at all, is stored.
C6_TagsAlwaysList ==
    \A u \in Present(db) :
        LET stored == db.rows[u]["tags"]
            tags == get_project_by_uuid(db, u).row["tags"]
        IN /\ tags.kind = "list"
           /\ (stored = NullTags \/ ~json_loads(stored).ok) => tags.val = <<>>

\* The columns versions above v require.
RequiredAbove(v) ==
    (IF v < 1 THEN SeqToSet(required_columns_v1) ELSE {})
    \cup (IF v < 2 THEN SeqToSet(required_columns_v2) ELSE {})

NoRepeat(q) == \A i, j \in 1..Len(q) : i # j => q[i] # q[j]

\* C8: migration is idempotent: a connect() that follows a connect() changes nothing in
\* the catalog, adds no column, raises nothing; and no run adds a column that exists
\* or adds one twice, whatever the starting version.
C8_MigrationIdempotent ==
    [][ret'.op = "connect"
       => /\ ret'.exc = None
          /\ NoRepeat(mig'.attempted)
          /\ \A c \in SeqToSet(mig'.attempted) : c \notin db.columns
          /\ mig'.failed = {}
          /\ ret.op = "connect" => (db' = db /\ mig'.attempted = <<>>)]_vars

\* A connect() that found nothing to do on a first-release catalog, with its rows, that
\* an earlier connect() had brought to version 2.
C8_Witness ==
    /\ ret.op = "connect"
    /\ mig.ran = FALSE
    /\ TableExists(db, "projects")
    /\ "u1" \in Present(db)
    /\ AllColumns \subseteq db.columns
    /\ db.versions = {2}
    /\ db.rows["u1"]["color_theme"] = "blue"
    /\ db.rows["u1"]["archived"] = 0

\* C9: migration destroys nothing: connect() keeps every row and every value of the
\* columns that existed, and a column it adds holds its declared default in every row
\* (favorite 0, open_count 0, archived 0, color_theme 'blue', NULL for the others).
C9_MigrationKeepsRows ==
    [][ret'.op = "connect"
       => /\ Present(db') = Present(db)
          /\ \A u \in Present(db) :
                /\ \A c \in db.columns : db'.rows[u][c] = db.rows[u][c]
                /\ \A c \in db'.columns \ db.columns :
                      CASE c \in {"favorite", "open_count", "archived"} -> db'.rows[u][c] = 0
                        [] c = "color_theme" -> db'.rows[u][c] = "blue"
                        [] OTHER -> db'.rows[u][c] = NullOf(c)]_vars

\* A catalog of the first release, with its rows, after the migration added columns.
C9_Witness ==
    /\ ret.op = "connect"
    /\ mig.applied >= 1
    /\ UUIDs \subseteq Present(db)
    /\ db.rows["u2"]["root_path"] = "/p/b"
    /\ "favorite" \in db.columns /\ db.rows["u2"]["favorite"] = 0
    /\ "archived" \in db.columns /\ db.rows["u1"]["archived"] = 0

\* C10: a failing migration step is absorbed: when only column additions fail, every
\* missing required column of versions 1 and 2 is still attempted; and whatever
\* statement of the migration fails, connect() does not raise.
C10_FailureAbsorbed ==
    [][(ret'.op = "connect" /\ faults' = faults)
       => /\ ret'.exc = None
          /\ (mig'.ran /\ faults \subseteq AllColumns)
                => SeqToSet(mig'.attempted)
                      = RequiredAbove(_get_current_schema_version(db)) \ db.columns]_vars

\* The first column addition failed and the columns after it were still attempted.
C10_Witness ==
    /\ ret.op = "connect"
    /\ ret.exc = None
    /\ mig.failed = {"description"}
    /\ Len(mig.attempted) = 10
    /\ "archive_size_mb" \in db.columns
    /\ "description" \notin db.columns

\* C11: whatever the engine fails on, a catalog operation or the commit of the
\* transaction scope raises nothing but DatabaseError (or the exception the caller's own
\* code raised in the body): no exception of the sqlite3 driver reaches the caller.
C11_OnlyDatabaseError == ret.exc \in {None, "DatabaseError", "Exception"}

\* C12: an upsert of a uuid that is stored keeps its open_count, keeps its favorite
\* unless the payload supplies favorite, and then stores the payload's value, and
\* stamps last_updated with the time of the call.
C12_UpsertMerge ==
    [][(/\ ret'.op = "add_or_update_project"
        /\ ret'.exc = None
        /\ ret'.uuid \in Present(db))
       => LET u == ret'.uuid
              payload == ret'.arg
          IN /\ u \in Present(db')
             /\ db'.rows[u]["open_count"] = db.rows[u]["open_count"]
             /\ db'.rows[u]["favorite"] =
                    IF Supplied(payload, "favorite") THEN payload["favorite"]
                    ELSE db.rows[u]["favorite"]
             /\ db'.rows[u]["last_updated"] = clock']_vars

\* An opened, favorited record was upserted with favorite 0 in the payload: the count
\* is kept, the payload's favorite is stored.
C12_Witness ==
    /\ ret.op = "add_or_update_project"
    /\ ret.exc = None
    /\ Supplied(ret.arg, "favorite") /\ ret.arg["favorite"] = 0
    /\ db.rows["u1"]["open_count"] >= 1
    /\ db.rows["u1"]["favorite"] = 0
    /\ db.rows["u1"]["date_added"] < db.rows["u1"]["last_updated"]

\* C13: right after add_or_update_project created a record, get_project_by_uuid
\* returns it with open_count 0, favorite 0 (no favorite in the payload) and date_added
\* equal to last_updated.
C13_FirstWrite ==
    [][(/\ ret'.op = "add_or_update_project"
        /\ ret'.exc = None
        /\ ret'.uuid \notin Present(db))
       => LET r == get_project_by_uuid(db', ret'.uuid) IN
          /\ r.val = "row"
          /\ r.row["open_count"] = 0
          /\ ~Supplied(ret'.arg, "favorite") => r.row["favorite"] = 0
          /\ r.row["date_added"] = r.row["last_updated"]]_vars

\* C14: every record_project_open of a stored uuid adds one to its open_count and sets
\* last_opened and last_updated to the time of that call, and no add_or_update_project,
\* toggle_favorite, update_notes, update_project_fields, delete_project or
\* archive_project changes the open_count of a record: after n opens it is the
\* initial count plus n.
C14_OpenCount ==
    [][\A u \in Present(db) \cap Present(db') :
          IF ret'.op = "record_project_open" /\ ret'.uuid = u /\ ret'.exc = None
          THEN /\ db'.rows[u]["open_count"] = db.rows[u]["open_count"] + 1
               /\ db'.rows[u]["last_opened"] = clock'
               /\ db'.rows[u]["last_updated"] = clock'
          ELSE db'.rows[u]["open_count"] = db.rows[u]["open_count"]]_vars

\* The second open of a record that was upserted again, annotated and disabled in
\* between and after the first.
C14_Witness ==
    /\ ret.op = "record_project_open"
    /\ ret.exc = None
    /\ "u1" \in Present(db)
    /\ db.rows["u1"]["open_count"] = 2
    /\ db.rows["u1"]["last_opened"] = clock
    /\ db.rows["u1"]["last_updated"] = clock
    /\ db.rows["u1"]["notes"] = "note2"
    /\ db.rows["u1"]["enabled"] = 0
    /\ db.rows["u1"]["date_added"] < clock

\* The columns of the stored record u that a step changed.
Changed(u) == {c \in db.columns \cap db'.columns : db'.rows[u][c] # db.rows[u][c]}

Searchable(d) ==
    UNION {SeqToSet(SearchResult(d, q, t, f)) : <<q, t, f>> \in Queries \X TagFilters \X BOOLEAN}

\* C16: delete_project leaves the record out of get_all_projects(enabled_only=True)
\* and of every search, while get_project_by_uuid still returns it with every other
\* field as it was; hard_delete_project leaves it out of both listings, of every
\* search, of get_project_by_uuid and of get_project_by_path.
C16_SoftHardDelete ==
    [][\A u \in Present(db) :
          /\ (ret'.op = "delete_project" /\ ret'.uuid = u /\ ret'.exc = None)
                => /\ u \notin AllProjects(db', TRUE)
                   /\ get_all_projects(db', TRUE).exc = None
                   /\ u \notin Searchable(db')
                   /\ get_project_by_uuid(db', u).val = "row"
                   /\ Changed(u) \subseteq {"enabled", "last_updated"}
          /\ (ret'.op = "hard_delete_project" /\ ret'.uuid = u /\ ret'.exc = None)
                => /\ u \notin AllProjects(db', TRUE) \cup AllProjects(db', FALSE)
                   /\ get_all_projects(db', FALSE).exc = None
                   /\ u \notin Searchable(db')
                   /\ get_project_by_uuid(db', u).val = None
                   /\ \A p \in Paths : get_project_by_path(db', p).row["uuid"] # u]_vars

\* A favorited, tagged record was disabled: it is stored, and the other record is
\* what a search finds.
C16_Witness ==
    /\ ret.op = "delete_project"
    /\ ret.exc = None
    /\ ret.uuid = "u1"
    /\ UUIDs \subseteq Present(db)
    /\ db.rows["u1"]["enabled"] = 0
    /\ db.rows["u1"]["favorite"] = 1
    /\ db.rows["u1"]["tags"] = json_dumps(<<T1>>)
    /\ Searchable(db) = {"u2"}

\* The methods that take a uuid and do nothing, silently, when it is not stored.
SilentOnMissing ==
    {"update_notes", "record_project_open", "delete_project", "hard_delete_project",
     "archive_project"}

\* C17: for a uuid or a path the catalog does not hold, get_project_by_uuid and
\* get_project_by_path return None, toggle_favorite returns False, update_notes,
\* record_project_open, delete_project, hard_delete_project and archive_project return
\* without raising, update_project_fields raises DatabaseError ("not found"); and in
\* each case the catalog is as it was.
C17_NotFound ==
    [][/\ (ret'.op = "get_project_by_path" /\ RowsAtPath(db, ret'.uuid) = {})
            => (ret'.val = None /\ ret'.exc = None /\ db' = db /\ committed' = committed)
       /\ (ret'.op \in SilentOnMissing \cup {"get_project_by_uuid", "toggle_favorite",
                                               "update_project_fields"}
            /\ ret'.uuid \notin Present(db))
            => /\ db' = db
               /\ committed' = committed
               /\ ret'.op = "get_project_by_uuid" => (ret'.val = None /\ ret'.exc = None)
               /\ ret'.op = "toggle_favorite" => (ret'.val = "False" /\ ret'.exc = None)
               /\ ret'.op \in SilentOnMissing => ret'.exc = None
               /\ ret'.op = "update_project_fields" => ret'.exc = "DatabaseError"]_vars

\* update_project_fields was called for a uuid that is not stored, next to a record
\* that is: it raised, and the record is untouched.
C17_Witness ==
    /\ ret.op = "update_project_fields"
    /\ ret.uuid = "u2"
    /\ ret.exc = "DatabaseError"
    /\ Present(db) = {"u1"}
    /\ db.rows["u1"]["description"] = NULL
    /\ db.rows["u1"]["notes"] = "note2"

\* C18: update_project_fields of a stored uuid writes the supplied ones of ai_app_name,
\* description and tags, and last_updated, and no other column, whatever else is
\* passed; with none of the three supplied it returns False and the record is as it
\* was, last_updated included.
C18_WhitelistOnly ==
    [][\A u \in Present(db) :
          (ret'.op = "update_project_fields" /\ ret'.uuid = u /\ ret'.exc = None)
          => LET fields == ret'.arg
                 supplied == DOMAIN fields \cap {"ai_app_name", "description", "tags"}
                 after == get_project_by_uuid(db', u).row
             IN IF supplied = {}
                THEN ret'.val = "False" /\ db' = db
                ELSE /\ ret'.val = "True"
                     /\ Changed(u) \subseteq supplied \cup {"last_updated"}
                     /\ \A k \in supplied : after[k] = fields[k]
                     /\ db'.rows[u]["last_updated"] = clock']_vars

\* description and tags were written by a call that also passed notes and enabled: the
\* notes and the flag of the record are what they were.
C18_Witness ==
    /\ ret.op = "update_project_fields"
    /\ ret.exc = None
    /\ ret.val = "True"
    /\ "notes" \in DOMAIN ret.arg
    /\ "u1" \in Present(db)
    /\ db.rows["u1"]["description"] = "e"
    /\ db.rows["u1"]["tags"] = json_dumps(<<T2, T1>>)
    /\ db.rows["u1"]["notes"] = "note2"
    /\ db.rows["u1"]["enabled"] = 1
    /\ db.rows["u1"]["last_updated"] = clock

\* The tag list of a stored record as the claim reads it: the decoded list, empty when
\* nothing or nothing decodable is stored.
DecodedTags(stored) ==
    IF stored = NullTags THEN <<>>
    ELSE LET h == HydrateTags(stored) IN IF h.kind = "list" THEN h.val ELSE <<>>

\* The records a search is to return: enabled, one of the four text fields LIKE
\* %query%, one of the requested tags among the record's tags, favorite set; each
\* filter only when it is supplied.
Expected(d, query, tags, favorites_only) ==
    {u \in Present(d) :
        /\ d.rows[u]["enabled"] = 1
        /\ query # "" =>
              \E c \in {"name", "root_path", "description", "notes"} :
                  Like(query, d.rows[u][c])
        /\ tags # <<>> =>
              \E i \in 1..Len(tags) : tags[i] \in SeqToSet(DecodedTags(d.rows[u]["tags"]))
        /\ favorites_only => d.rows[u]["favorite"] = 1}

\* C19: on a connected store, whatever records it holds (with tags, without, with
\* tags that do not decode), search_projects(query, tags, favorites_only) does not
\* raise and returns exactly the enabled records that pass every supplied filter, each
\* once, ordered by name without regard to case.
C19_SearchExact ==
    ret.op = "search_projects"
    => LET found == SearchResult(db, ret.uuid, ret.tags.val, ret.arg) IN
       /\ ret.exc = None
       /\ SeqToSet(found) = Expected(db, ret.uuid, ret.tags.val, ret.arg)
       /\ \A i, j \in 1..Len(found) :
             i < j => /\ found[i] # found[j]
                      /\ NoCaseLE(Chars(db.rows[found[i]]["name"]),
                                  Chars(db.rows[found[j]]["name"]))

\* C20: on a connected store whose projects table lacks notes, description or both,
\* search_projects(query) does not raise and returns the enabled records that match
\* the query in one of the text columns the table has; and when the table lacks
\* favorite, search_projects(favorites_only=True) returns the empty list without
\* raising.
C20_SearchDegrades ==
    (ret.op = "search_projects" /\ conn = "open" /\ TableExists(db, "projects"))
    => LET query == ret.uuid
           found == SearchResult(db, query, <<>>, ret.arg)
       IN /\ (query # "" /\ ret.arg = FALSE)
                => /\ ret.exc = None
                   /\ SeqToSet(found) =
                         {u \in Present(db) :
                             /\ db.rows[u]["enabled"] = 1
                             /\ \E c \in {"name", "root_path", "description", "notes"}
                                          \cap db.columns : Like(query, db.rows[u][c])}
          /\ (ret.arg = TRUE /\ "favorite" \notin db.columns)
                => (ret.exc = None /\ found = <<>>)

\* A search for "b" on a migrated first-release catalog that has description but no
\* notes column found the record stored under /p/b.
C20_Witness ==
    /\ ret.op = "search_projects"
    /\ ret.exc = None
    /\ ret.uuid = "b"
    /\ ret.arg = FALSE
    /\ conn = "open"
    /\ "notes" \notin db.columns
    /\ "description" \in db.columns
    /\ UUIDs \subseteq Present(db)
    /\ SearchResult(db, "b", <<>>, FALSE) = <<"u2">>

\* A name with its letters folded.
FoldName(name) == [i \in 1..Len(name) |-> Lower(name[i])]

\* C21: the tag catalog never holds two tags whose names differ only in letter case.
C21_TagNamesUnique ==
    \A a, b \in db.tagnames : FoldName(a) = FoldName(b) => a = b

\* C22: connect() on a store that is connected does not raise, leaves every committed
\* record with every value it had, and leaves the store connected, with every record
\* still returned by get_project_by_uuid.
C22_ConnectIdempotent ==
    [][(ret'.op = "connect" /\ conn = "open")
       => /\ ret'.exc = None
          /\ conn' = "open"
          /\ DOMAIN committed' = DOMAIN committed
          /\ \A u \in DOMAIN committed :
                /\ \A c \in DOMAIN committed[u] : committed'[u][c] = committed[u][c]
                /\ get_project_by_uuid(db', u).val = "row"
                /\ db'.rows[u] = committed'[u]]_vars

\* connect() was called on a connected store that holds an annotated record.
C22_Witness ==
    /\ ret.op = "connect"
    /\ ret.arg = "open"
    /\ ret.exc = None
    /\ conn = "open"
    /\ "u1" \in Present(db)
    /\ db.rows["u1"]["notes"] = "note2"
    /\ committed = db.rows

\* C23: the tags of the payload built by create_project_payload are normalized: each
\* tag is non-empty, lowercase and alphanumeric-only, no tag occurs twice, the tags
\* stand in the order of their first occurrence (custom tag first), at most 3.
C23_TagsNormalized ==
    ret.op = "create_project_payload" =>
        LET tags == ret.tags
            given == <<ret.uuid>> \o (IF ret.arg.skip_ai_tags THEN <<>> ELSE ret.arg.ai_tags)
            firsts == KeepFirst(NormalizedAiTags(given), {})
        IN /\ Len(tags) <= 3
           /\ \A i \in 1..Len(tags) :
                /\ tags[i] # <<>>
                /\ \A k \in 1..Len(tags[i]) : IsAlnum(tags[i][k]) /\ Lower(tags[i][k]) = tags[i][k]
           /\ \A i, j \in 1..Len(tags) : tags[i] = tags[j] => i = j
           /\ tags = SubSeq(firsts, 1, Len(tags))

\* C24: when the archive flow ends in failure no archive file from this run remains,
\* and when it ends in success the record of that uuid is archived with
\* archive_path naming the file, which exists.
C24_ArchiveFlow ==
    ret.op = "_start_archive" =>
        /\ ret.val = "failed" => ~ret.arg.exists
        /\ (ret.val = "success" /\ ret.uuid \in Present(db)) =>
                /\ ret.arg.exists
                /\ db.rows[ret.uuid]["archived"] = 1
                /\ db.rows[ret.uuid]["archive_path"] = ret.arg.path

\* C25: an upsert of a stored uuid with a payload that omits notes, last_opened and
\* color_theme leaves the stored notes, last_opened and color_theme as they were.
C25_RescanKeepsUserData ==
    [][(/\ ret'.op = "add_or_update_project"
        /\ ret'.exc = None
        /\ ret'.uuid \in Present(db)
        /\ {"notes", "last_opened", "color_theme"} \cap DOMAIN ret'.arg = {})
       => \A c \in {"notes", "last_opened", "color_theme"} :
             db'.rows[ret'.uuid][c] = db.rows[ret'.uuid][c]]_vars

\* C26: add_or_update_project creates or replaces only the record of the payload's
\* uuid: every record of another uuid is still stored afterwards, with every value
\* it had, also when the payload's root_path is the root_path of another record.
C26_OnlyOwnRecord ==
    [][(ret'.op = "add_or_update_project" /\ ret'.exc = None)
       => \A v \in Present(db) \ {ret'.uuid} :
             /\ get_project_by_uuid(db', v).val = "row"
             /\ v \in Present(db')
             /\ db'.rows[v] = db.rows[v]]_vars

\* C27: a record that archive_project marked archived stays archived, with the same
\* archive_path, archive_date and archive_size_mb, under every later operation on
\* its uuid that is neither archive_project again nor hard_delete_project.
C27_ArchivedStable ==
    [][\A u \in Present(db) \cap Present(db') :
          (db.rows[u]["archived"] = 1 /\ ret'.op # "archive_project")
          => \A c \in {"archived", "archive_path", "archive_date", "archive_size_mb"} :
                db'.rows[u][c] = db.rows[u][c]]_vars

\* C28: search_projects with no query, no tags and favorites_only false returns the
\* records get_all_projects(enabled_only=True) returns, and a search with filters
\* returns none that the unfiltered listing does not hold.
C28_SearchIsListing ==
    (ret.op = "search_projects" /\ ret.exc = None)
    => LET found == SeqToSet(SearchResult(db, ret.uuid, ret.tags.val, ret.arg)) IN
       /\ found \subseteq AllProjects(db, TRUE)
       /\ (ret.uuid = "" /\ ret.tags.val = <<>> /\ ~ret.arg) => found = AllProjects(db, TRUE)

\* The columns the versions 1..v require.
RequiredUpTo(v) ==
    (IF v >= 1 THEN SeqToSet(required_columns_v1) ELSE {})
    \cup (IF v >= 2 THEN SeqToSet(required_columns_v2) ELSE {})

\* C29: the recorded schema version is truthful: when schema_version records version
\* V as applied, the projects table has every column the versions 1..V require.
C29_VersionTruthful ==
    \A v \in db.versions : RequiredUpTo(v) \subseteq db.columns

\* C30: no lost update between two stores on one file: when the other store's
\* add_or_update_project writes a record that this store opened or favorited after
\* the other store had read it, and both calls complete without error, the record
\* keeps the open_count of the record_project_open calls and, unless the payload
\* supplies favorite, the favorite of the toggles.
C30_NoLostUpdate ==
    [][(/\ pending.active /\ ~pending'.active
        /\ ret'.exc = None
        /\ ret'.uuid \in Present(db))
       => LET u == ret'.uuid IN
          /\ u \in Present(db')
          /\ db'.rows[u]["open_count"] = db.rows[u]["open_count"]
          /\ ~Supplied(ret'.arg, "favorite") => db'.rows[u]["favorite"] = db.rows[u]["favorite"]]_vars
====
